---------------------------- MODULE Spec2Model ----------------------------
(***************************************************************************)
(* A model of flory's CoexistingPhasesFinder (src/flory/mcmp.py): the      *)
(* finder object, its constructor, its three setters, its three re-seeders *)
(* and run().                                                              *)
(*                                                                         *)
(* Numbers.  Python floats are fixed-point integers in quarters: One = 4   *)
(* stands for 1.0.  Inf, -Inf and NaN are the IEEE specials, with the      *)
(* arithmetic numpy gives them (log(0) = -inf, log(x<0) = nan, x/0 = inf). *)
(*                                                                         *)
(* Arrays.  A 1-D array is a sequence; a 2-D array is a sequence of rows,  *)
(* one row per component, one column per compartment.                      *)
(*                                                                         *)
(* Optional values.  None is the empty sequence, a given value v is <<v>>. *)
(***************************************************************************)
EXTENDS Integers, Sequences, FiniteSets, TLC

(***************************************************************************)
(* Bounds of the model.                                                    *)
(***************************************************************************)
MaxCompartments == 2
MaxSteps == 2
MaxInterval == 2
RngPeriod == 3
\* calls made on a finder after its construction
MaxCalls == 2

(***************************************************************************)
(* Floating point.                                                         *)
(***************************************************************************)
One == 4
Inf == 100 * One
NaN == Inf + 1

IsNaN(x) == x = NaN
IsFinite(x) == (0 - Inf) < x /\ x < Inf
FNeg(x) == IF IsNaN(x) THEN NaN ELSE 0 - x
FAbs(x) == IF IsNaN(x) THEN NaN ELSE IF x < 0 THEN 0 - x ELSE x
FLt(x, y) == ~IsNaN(x) /\ ~IsNaN(y) /\ x < y
FLe(x, y) == ~IsNaN(x) /\ ~IsNaN(y) /\ x <= y
FGt(x, y) == FLt(y, x)
Sign(x) == IF x < 0 THEN 0 - 1 ELSE IF x > 0 THEN 1 ELSE 0
\* integer quotient rounded towards zero
Quot(a, b) == Sign(a) * Sign(b) * (FAbs(a) \div FAbs(b))

FAdd(x, y) ==
    IF IsNaN(x) \/ IsNaN(y) THEN NaN
    ELSE IF ~IsFinite(x) /\ ~IsFinite(y) THEN (IF x = y THEN x ELSE NaN)
    ELSE IF ~IsFinite(x) THEN x
    ELSE IF ~IsFinite(y) THEN y
    ELSE x + y

FSub(x, y) == FAdd(x, FNeg(y))

FMul(x, y) ==
    IF IsNaN(x) \/ IsNaN(y) THEN NaN
    ELSE IF ~IsFinite(x) \/ ~IsFinite(y)
         THEN (IF x = 0 \/ y = 0 THEN NaN ELSE Sign(x) * Sign(y) * Inf)
    ELSE Quot(x * y, One)

\* numpy's true division of floats: x/0 is +-inf, 0/0 and inf/inf are nan
FDiv(x, y) ==
    IF IsNaN(x) \/ IsNaN(y) THEN NaN
    ELSE IF y = 0 THEN (IF x = 0 THEN NaN ELSE Sign(x) * Inf)
    ELSE IF ~IsFinite(x) THEN (IF ~IsFinite(y) THEN NaN ELSE Sign(x) * Sign(y) * Inf)
    ELSE IF ~IsFinite(y) THEN 0
    ELSE Quot(x * One, y)

\* natural logarithm of 0.25, 0.5, ..., 2.0 in quarters, rounded to nearest
LogTable == <<0 - 6, 0 - 3, 0 - 1, 0, 1, 2, 2, 3>>

\* np.log: -inf at 0 and nan below 0 (with a RuntimeWarning, no exception)
Log(x) ==
    IF IsNaN(x) \/ x < 0 THEN NaN
    ELSE IF x = 0 THEN 0 - Inf
    ELSE IF x = Inf THEN Inf
    ELSE LogTable[x]

(***************************************************************************)
(* Arrays.                                                                 *)
(***************************************************************************)
None == << >>
Some(v) == <<v>>
Optional(S) == {None} \cup {Some(v) : v \in S}

Full1(n, v) == [k \in 1..n |-> v]
Full2(rows, cols, v) == [i \in 1..rows |-> [k \in 1..cols |-> v]]
\* the shape of a (rectangular, non-empty) 2-D array
Shape2(a) == <<Len(a), Len(a[1])>>
Shape1(a) == <<Len(a)>>

RECURSIVE SumSeq(_)
SumSeq(s) == IF s = << >> THEN 0 ELSE FAdd(s[1], SumSeq(Tail(s)))

RECURSIVE MinSeq(_)
MinSeq(s) == IF Len(s) = 1 THEN s[1]
             ELSE LET r == MinSeq(Tail(s)) IN IF s[1] < r THEN s[1] ELSE r

Range(s) == {s[k] : k \in 1..Len(s)}

(***************************************************************************)
(* The random source.  A generator is its seed and the number of values    *)
(* drawn so far (modulo RngPeriod); the k-th standard normal value of the  *)
(* stream seeded s is StandardNormal(s, k).                                *)
(***************************************************************************)
Seeds == {0, 1}
NormalTable == <<0 - One, One, 0>>
StandardNormal(seed, pos) == NormalTable[((seed + pos) % Len(NormalTable)) + 1]
default_rng(seed) == [seed |-> seed, pos |-> 0]
\* rng.normal(0.0, std): the next value of the stream
Normal(rng, std) == FMul(std, StandardNormal(rng.seed, rng.pos))
Advance(rng, n) == [rng EXCEPT !.pos = (rng.pos + n) % RngPeriod]
\* rng.normal(0.0, std, (rows, cols)): rows*cols values, filled row by row
NormalField(rng, std, rows, cols) ==
    [i \in 1..rows |-> [k \in 1..cols |->
        Normal(Advance(rng, (i - 1) * cols + (k - 1)), std)]]

(***************************************************************************)
(* Hyperparameters the model keeps fixed (the constructor's defaults, or   *)
(* one value of the caller's choice) and the values it draws from.         *)
(***************************************************************************)
random_std == One
revive_scaler == One
additional_chis_shift == One
MaxReviveChoices == {0 - 1, 0, 1}
Criteria == {"standard", "fancy"}
\* kill thresholds a caller passes: the default 0.0, and 1.0
KillThresholds == {0, One}
\* run(): no override, or max_steps and interval both overridden
RunOverrides ==
    {<<None, None>>}
        \cup {<<Some(ms), Some(iv)>> : ms \in 0..MaxSteps, iv \in 1..MaxInterval}

(***************************************************************************)
(* Values the callers pass.                                                *)
(***************************************************************************)
\* a (rows x cols) array holding a at [1,1] and b elsewhere
MakeField(rows, cols, a, b) ==
    [i \in 1..rows |-> [k \in 1..cols |-> IF i = 1 /\ k = 1 THEN a ELSE b]]

ChisInputs == {<<<<0, 3 * One>>, <<3 * One, 0>>>>,
               <<<<0, 0>>, <<0, 0>>>>,
               <<<<0, 3 * One, 0>>, <<3 * One, 0, 0>>>>}
PhiMeansInputs == {<<2, 2>>, <<0 - 2, 6>>, <<1, 1, 2>>}
SizesInputs == {<<One, 2 * One>>, <<One, One, One>>}
PhiValues == {0 - 2, 0, 2, 4}
\* arrays for a finder of nc components and m compartments, and one array
\* with a column too many
PhisInputs(nc, m) ==
    {MakeField(nc, m, a, b) : a \in PhiValues, b \in {2, 4}}
        \cup {MakeField(nc, m + 1, 2, 2)}
OmegasInputs(nc, m) ==
    {MakeField(nc, m, a, b) : a \in {0 - One, 0}, b \in {0, One}}
        \cup {MakeField(nc, m + 1, 0, 0)}

(***************************************************************************)
(* The finder: the attributes of a CoexistingPhasesFinder (named as in the *)
(* source, without the leading underscore), and beside them                *)
(*   pc    where the caller stands: "init" (no finder built), "idle"       *)
(*         (between calls), "metastep", "check", "final" (inside run);     *)
(*   run   the local variables of the active run();                        *)
(*   call  the last call: its name, its argument, how it ended ("ok" or    *)
(*         the exception raised) and what it returned.                     *)
(***************************************************************************)
NoRun == [max_steps |-> 0, tolerance |-> 0, interval |-> 0,
          steps_tracker |-> 0, steps_inner |-> 0, steps |-> 0,
          outer |-> 0, inner |-> 0, chis_shifted |-> << >>,
          residuals |-> None, revive_count |-> 0, revive_tries |-> 0,
          killed |-> {}, revived |-> {}]

Call(op, arg, status, value) ==
    [op |-> op, arg |-> arg, status |-> status, value |-> value]

NoFinder ==
    [pc |-> "init", calls |-> 0, run |-> NoRun, call |-> Call("none", None, "ok", None),
     chis |-> << >>, num_components |-> 0, phi_means |-> << >>,
     num_compartments |-> 0, sizes |-> << >>,
     rng_is_external |-> FALSE, rng_seed |-> 0, rng |-> default_rng(0),
     max_steps |-> 0, convergence_criterion |-> "", tolerance |-> 0,
     interval |-> 0, Js_step_upper_bound |-> 0, kill_threshold |-> 0,
     max_revive_per_compartment |-> 0,
     Js |-> << >>, omegas |-> << >>, phis |-> << >>,
     revive_count_left |-> 0, diagnostics |-> None]

Raise(f, op, arg, exc) == [f EXCEPT !.call = Call(op, arg, exc, None)]
Return(f, op, arg, value) == [f EXCEPT !.call = Call(op, arg, "ok", value)]

FullBudget(f) == f.max_revive_per_compartment * f.num_compartments

(***************************************************************************)
(* reinitialize_random                                                     *)
(***************************************************************************)
reinitialize_random_body(f) ==
    [f EXCEPT
        !.omegas = NormalField(f.rng, random_std, f.num_components,
                               f.num_compartments),
        !.rng = Advance(f.rng, f.num_components * f.num_compartments),
        !.Js = Full1(f.num_compartments, One),
        !.revive_count_left = FullBudget(f)]

reinitialize_random(f) ==
    Return(reinitialize_random_body(f), "reinitialize_random", None, None)

(***************************************************************************)
(* __init__.  a is the record of its arguments, clock what                 *)
(* int(datetime.now().timestamp()) yields during the call.                 *)
(***************************************************************************)
\* a constructor that drops the caller's generator and seeds by the clock
make_rng_from_clock(rng_arg, clock) ==
    [is_external |-> rng_arg # None, seed |-> IF rng_arg = None THEN clock ELSE 0,
     rng |-> default_rng(clock)]

\* lines 193-201: the caller's generator, or a new one seeded by the clock
make_rng(rng_arg, clock) ==
    IF rng_arg = None
    THEN [is_external |-> FALSE, seed |-> clock, rng |-> default_rng(clock)]
    ELSE [is_external |-> TRUE, seed |-> 0, rng |-> rng_arg[1]]

\* a constructor that does not look at the length of sizes
ShapesRejected_but_for_sizes(a) ==
    \/ Shape2(a.chis)[1] # Shape2(a.chis)[2]
    \/ Shape1(a.phi_means)[1] # Shape2(a.chis)[1]

\* lines 142-191: chis not square, or phi_means or a given sizes not of
\* the length chis implies
ShapesRejected(a) ==
    \/ Shape2(a.chis)[1] # Shape2(a.chis)[2]
    \/ Shape1(a.phi_means)[1] # Shape2(a.chis)[1]
    \/ a.sizes # None /\ Shape1(a.sizes[1])[1] # Shape2(a.chis)[1]

init(f, a, clock) ==
    LET raise == Raise(f, "__init__", Some(a), "ValueError") IN
    IF ShapesRejected(a) THEN raise
    ELSE LET nc == Len(a.chis)
             g == [f EXCEPT
                     !.pc = "idle",
                     !.chis = a.chis,
                     !.num_components = nc,
                     !.phi_means = a.phi_means,
                     !.num_compartments = a.num_compartments,
                     !.sizes = IF a.sizes = None THEN Full1(nc, One)
                               ELSE a.sizes[1],
                     !.rng_is_external = make_rng(a.rng, clock).is_external,
                     !.rng_seed = make_rng(a.rng, clock).seed,
                     !.rng = make_rng(a.rng, clock).rng,
                     !.max_steps = a.max_steps,
                     !.convergence_criterion = a.convergence_criterion,
                     !.tolerance = a.tolerance,
                     !.interval = a.interval,
                     !.Js_step_upper_bound = a.Js_step_upper_bound,
                     !.kill_threshold = a.kill_threshold,
                     !.max_revive_per_compartment = a.max_revive_per_compartment,
                     !.Js = Full1(a.num_compartments, 0),
                     !.omegas = Full2(nc, a.num_compartments, 0),
                     !.phis = Full2(nc, a.num_compartments, 0),
                     !.revive_count_left =
                         a.max_revive_per_compartment * a.num_compartments]
         IN Return(reinitialize_random_body(g), "__init__", Some(a), None)

(***************************************************************************)
(* reinitialize_from_omegas.  Its first statement calls the np.ndarray     *)
(* constructor, whose argument is a shape: given a 2-D array it raises     *)
(* TypeError, so nothing after it is reached with an array argument.       *)
(***************************************************************************)
ndarray(shape) == [raised |-> "TypeError", value |-> None]

reinitialize_from_omegas(f, omegas) ==
    LET op == "reinitialize_from_omegas"
        made == ndarray(omegas) IN
    IF made.raised # "" THEN Raise(f, op, Some(omegas), made.raised)
    ELSE IF Shape2(made.value[1]) # Shape2(f.omegas)
         THEN Raise(f, op, Some(omegas), "ValueError")
    ELSE Return([f EXCEPT !.omegas = made.value[1],
                          !.Js = Full1(Len(f.Js), One),
                          !.revive_count_left = FullBudget(f)],
                op, Some(omegas), None)

(***************************************************************************)
(* reinitialize_from_phis                                                  *)
(***************************************************************************)
\* a re-seed from phis that leaves Js as they are
reinitialize_from_phis_keeping_Js(f, phis) ==
    LET op == "reinitialize_from_phis" IN
    IF Shape2(phis) # Shape2(f.omegas)
    THEN Raise(f, op, Some(phis), "ValueError")
    ELSE Return([f EXCEPT
                    !.omegas = [i \in 1..f.num_components |->
                                  [k \in 1..Len(phis[i]) |->
                                      FDiv(FNeg(Log(phis[i][k])), f.sizes[i])]],
                    !.revive_count_left = FullBudget(f)],
                op, Some(phis), None)

reinitialize_from_phis(f, phis) ==
    LET op == "reinitialize_from_phis" IN
    IF Shape2(phis) # Shape2(f.omegas)
    THEN Raise(f, op, Some(phis), "ValueError")
    ELSE Return([f EXCEPT
                    !.omegas = [i \in 1..f.num_components |->
                                  [k \in 1..Len(phis[i]) |->
                                      FDiv(FNeg(Log(phis[i][k])), f.sizes[i])]],
                    !.Js = Full1(Len(f.Js), One),
                    !.revive_count_left = FullBudget(f)],
                op, Some(phis), None)

(***************************************************************************)
(* The setters of chis, phi_means and sizes.                               *)
(***************************************************************************)
\* a chis setter that re-seeds Js as well
chis_setter_reseeding_Js(f, chis_new) ==
    IF Shape2(chis_new) # Shape2(f.chis)
    THEN Raise(f, "chis", Some(chis_new), "ValueError")
    ELSE Return([f EXCEPT !.chis = chis_new,
                          !.Js = Full1(Len(f.Js), One),
                          !.revive_count_left = FullBudget(f)],
                "chis", Some(chis_new), None)

chis_setter(f, chis_new) ==
    IF Shape2(chis_new) # Shape2(f.chis)
    THEN Raise(f, "chis", Some(chis_new), "ValueError")
    ELSE Return([f EXCEPT !.chis = chis_new,
                          !.revive_count_left = FullBudget(f)],
                "chis", Some(chis_new), None)

phi_means_setter(f, phi_means_new) ==
    IF Shape1(phi_means_new) # Shape1(f.phi_means)
    THEN Raise(f, "phi_means", Some(phi_means_new), "ValueError")
    ELSE Return([f EXCEPT !.phi_means = phi_means_new,
                          !.revive_count_left = FullBudget(f)],
                "phi_means", Some(phi_means_new), None)

\* a sizes setter that resets the budget before it looks at the shape
sizes_setter_resetting_first(f, sizes_new) ==
    LET g == [f EXCEPT !.revive_count_left = FullBudget(f)] IN
    IF Shape1(sizes_new) # Shape1(f.sizes)
    THEN Raise(g, "sizes", Some(sizes_new), "ValueError")
    ELSE Return([g EXCEPT !.sizes = sizes_new], "sizes", Some(sizes_new), None)

sizes_setter(f, sizes_new) ==
    IF Shape1(sizes_new) # Shape1(f.sizes)
    THEN Raise(f, "sizes", Some(sizes_new), "ValueError")
    ELSE Return([f EXCEPT !.sizes = sizes_new,
                          !.revive_count_left = FullBudget(f)],
                "sizes", Some(sizes_new), None)


(***************************************************************************)
(* run, lines 397-425: the overrides, the split of max_steps into          *)
(* steps_tracker outer iterations of steps_inner inner steps, and the      *)
(* shifted copy of chis.  0 // 0 raises ZeroDivisionError.                 *)
(***************************************************************************)
\* int(np.ceil(a / b)) for a >= 0, b > 0
CeilDiv(a, b) == (a + b - 1) \div b
Max(a, b) == IF a >= b THEN a ELSE b

\* rounding max_steps / interval down and adding one, instead of up
StepsTracker_floor_plus_one(max_steps, interval) == (max_steps \div interval) + 1
StepsTracker(max_steps, interval) == CeilDiv(max_steps, interval)
StepsInner(max_steps, steps_tracker) == Max(1, max_steps \div steps_tracker)

ChisShifted(f) ==
    LET lo == MinSeq([i \in 1..Len(f.chis) |-> MinSeq(f.chis[i])]) IN
    [i \in 1..Len(f.chis) |-> [j \in 1..Len(f.chis[i]) |->
        f.chis[i][j] - lo + additional_chis_shift]]

\* a call of the meta-step that hands over the full budget every time
EnterMetastep_full_tries(f) ==
    [f EXCEPT !.pc = "metastep", !.run.inner = 0, !.run.revive_count = 0,
              !.run.revive_tries = FullBudget(f),
              !.run.killed = {}, !.run.revived = {}]

\* the frame of one call of the meta-step: nothing revived yet, and the
\* finder's budget handed over as revive_tries (killed and revived record
\* what the kill and revive passes of the latest inner step did)
EnterMetastep(f) ==
    [f EXCEPT !.pc = "metastep", !.run.inner = 0, !.run.revive_count = 0,
              !.run.revive_tries = f.revive_count_left,
              !.run.killed = {}, !.run.revived = {}]

\* the head of the for loop over range(steps_tracker)
LoopHead(f) ==
    IF f.run.outer < f.run.steps_tracker THEN EnterMetastep(f)
    ELSE [f EXCEPT !.pc = "final"]

\* a run that begins by restoring the revive budget
run_begin_with_full_budget(f, max_steps_arg, tolerance_arg, interval_arg) ==
    LET args == <<max_steps_arg, tolerance_arg, interval_arg>>
        max_steps == IF max_steps_arg = None THEN f.max_steps
                     ELSE max_steps_arg[1]
        tolerance == IF tolerance_arg = None THEN f.tolerance
                     ELSE tolerance_arg[1]
        interval == IF interval_arg = None THEN f.interval
                    ELSE interval_arg[1]
        steps_tracker == StepsTracker(max_steps, interval)
    IN IF steps_tracker = 0
       THEN Raise(f, "run", args, "ZeroDivisionError")
       ELSE LoopHead([f EXCEPT
               !.call = Call("run", args, "running", None),
               !.revive_count_left = FullBudget(f),
               !.run = [NoRun EXCEPT
                          !.max_steps = max_steps,
                          !.tolerance = tolerance,
                          !.interval = interval,
                          !.steps_tracker = steps_tracker,
                          !.steps_inner = StepsInner(max_steps, steps_tracker),
                          !.steps = 0,
                          !.chis_shifted = ChisShifted(f)]])

run_begin(f, max_steps_arg, tolerance_arg, interval_arg) ==
    LET args == <<max_steps_arg, tolerance_arg, interval_arg>>
        max_steps == IF max_steps_arg = None THEN f.max_steps
                     ELSE max_steps_arg[1]
        tolerance == IF tolerance_arg = None THEN f.tolerance
                     ELSE tolerance_arg[1]
        interval == IF interval_arg = None THEN f.interval
                    ELSE interval_arg[1]
        steps_tracker == StepsTracker(max_steps, interval)
    IN IF steps_tracker = 0
       THEN Raise(f, "run", args, "ZeroDivisionError")
       ELSE LoopHead([f EXCEPT
               !.call = Call("run", args, "running", None),
               !.run = [NoRun EXCEPT
                          !.max_steps = max_steps,
                          !.tolerance = tolerance,
                          !.interval = interval,
                          !.steps_tracker = steps_tracker,
                          !.steps_inner = StepsInner(max_steps, steps_tracker),
                          !.steps = 0,
                          !.chis_shifted = ChisShifted(f)]])


(***************************************************************************)
(* The iteration kernel (detail/mcmp_impl.py, which is not among the       *)
(* source files: modelled from the specification, section 4.C).            *)
(*                                                                         *)
(* One inner step.  What the dense arithmetic of steps 1 and 3 yields (the *)
(* composition of each compartment and the target J_new) is drawn from     *)
(* small sets, the target omega is 0; everything the step does with these  *)
(* values (residual, deltas, rescaling, update, kill pass, revive pass,    *)
(* metrics) is computed.  A compartment that is dead when the step starts  *)
(* (J <= kill_threshold) is skipped by the computation.                    *)
(***************************************************************************)
acceptance_Js == One
acceptance_omega == One
\* the target of every omega (step 3)
omega_target == 0
\* a kill test that spares a J equal to the threshold
Dead_strictly_below(Js, kill_threshold, m) == FLt(Js[m], kill_threshold)
\* 7. a compartment is dead when its J is at or below the threshold
Dead(Js, kill_threshold, m) == FLe(Js[m], kill_threshold)
Column(a, m) == [i \in 1..Len(a) |-> a[i][m]]
ColumnFinite(a, m) == \A i \in 1..Len(a) : IsFinite(a[i][m])

\* max of the absolute values of a sequence, numpy's way: nan if any is nan
MaxAbs(s) ==
    IF s = << >> THEN 0
    ELSE IF \E k \in 1..Len(s) : IsNaN(s[k]) THEN NaN
    ELSE CHOOSE x \in {FAbs(s[k]) : k \in 1..Len(s)} :
            \A k \in 1..Len(s) : FAbs(s[k]) <= x

Flatten(a) == [k \in 1..(Len(a) * Len(a[1])) |->
                 a[((k - 1) \div Len(a[1])) + 1][((k - 1) % Len(a[1])) + 1]]

\* the compositions step 1 may yield for M compartments: one phase, two
\* phases, or columns that do not sum to 1
PhiFields(M) ==
    {[m \in 1..M |-> <<2, 2>>],
     [m \in 1..M |-> IF m = 1 THEN <<3, 1>> ELSE <<2, 2>>],
     [m \in 1..M |-> <<3, 3>>]}

\* the targets J_new step 1 may yield: J itself (a fixed point), J with
\* one compartment emptied, or a target far below every J (a step that the
\* step-size bound cuts down)
JTargets(Js) ==
    {Js, [m \in 1..Len(Js) |-> 0 - One]}
        \cup {[Js EXCEPT ![k] = 0] : k \in 1..Len(Js)}

\* what the arithmetic of one step may yield in finder state f; a live
\* compartment whose omega or J is not finite yields nan
Numerics(f) ==
    LET M == f.num_compartments
        nc == f.num_components
        live(m) == ~Dead(f.Js, f.kill_threshold, m)
        sane(m) == ColumnFinite(f.omegas, m) /\ ~IsNaN(f.Js[m])
    IN {[phicol |-> [m \in 1..M |-> IF ~live(m) THEN Column(f.phis, m)
                                    ELSE IF ~sane(m) THEN Full1(nc, NaN)
                                    ELSE pf[m]],
         J_new |-> [m \in 1..M |-> IF ~live(m) THEN f.Js[m]
                                   ELSE IF ~sane(m) THEN NaN
                                   ELSE jn[m]]] :
            pf \in PhiFields(M), jn \in JTargets(f.Js)}

\* the m-th compartment's rank among the dead ones, in index order
DeadRank(dead, m) == Cardinality({j \in dead : j < m})

\* a revive pass that takes the dead compartments from the highest index down
Revived_from_the_top(dead, budget) ==
    {m \in dead : Cardinality({j \in dead : j > m}) < budget}

\* 8. the dead compartments the revive pass revives: in index order, one
\* unit of budget each, while budget is left
Revived(dead, budget) == {m \in dead : DeadRank(dead, m) < budget}

kernel_step(f, n) ==
    LET M == f.num_compartments
        nc == f.num_components
        thr == f.kill_threshold
        bound == f.Js_step_upper_bound
        live(m) == ~Dead(f.Js, thr, m)
        \* 1. phi from omega
        phis1 == [i \in 1..nc |-> [m \in 1..M |->
                    IF live(m) THEN n.phicol[m][i] ELSE f.phis[i][m]]]
        \* 2. incompressibility residual
        incomp == [m \in 1..M |->
                    IF live(m) THEN FSub(SumSeq(Column(phis1, m)), One) ELSE 0]
        \* 3, 4. targets and proposed deltas
        target(i, m) == omega_target
        domega0 == [i \in 1..nc |-> [m \in 1..M |->
                    IF live(m)
                    THEN FMul(acceptance_omega, FSub(target(i, m), f.omegas[i][m]))
                    ELSE 0]]
        dJ0 == [m \in 1..M |->
                    IF live(m) THEN FMul(acceptance_Js, FSub(n.J_new[m], f.Js[m]))
                    ELSE 0]
        \* 5. step-size safety
        maxdJ == MaxAbs(dJ0)
        rescale == FGt(maxdJ, bound)
        scaled(x) == IF rescale THEN FDiv(FMul(x, bound), maxdJ) ELSE x
        domega == [i \in 1..nc |-> [m \in 1..M |-> scaled(domega0[i][m])]]
        dJ == [m \in 1..M |-> scaled(dJ0[m])]
        \* 6. apply
        omegas1 == [i \in 1..nc |-> [m \in 1..M |->
                    FAdd(f.omegas[i][m], domega[i][m])]]
        Js1 == [m \in 1..M |-> FAdd(f.Js[m], dJ[m])]
        \* 7. kill pass
        dead == {m \in 1..M : Dead(Js1, thr, m)}
        \* 8. revive pass, in index order, while budget is left
        budget == f.run.revive_tries - f.run.revive_count
        revived == Revived(dead, budget)
        drawn(i, m) == Normal(Advance(f.rng, DeadRank(dead, m) * nc + (i - 1)),
                              FMul(revive_scaler, random_std))
    IN [f EXCEPT
          !.phis = phis1,
          !.omegas = [i \in 1..nc |-> [m \in 1..M |->
                        IF m \in revived THEN drawn(i, m) ELSE omegas1[i][m]]],
          !.Js = [m \in 1..M |-> IF m \in revived THEN One
                                 ELSE IF m \in dead THEN 0 ELSE Js1[m]],
          !.rng = Advance(f.rng, Cardinality(revived) * nc),
          !.run.inner = f.run.inner + 1,
          !.run.revive_count = f.run.revive_count + Cardinality(revived),
          !.run.killed = dead,
          !.run.revived = revived,
          \* 9. residual metrics
          !.run.residuals = Some([max_abs_incomp |-> MaxAbs(incomp),
                                  max_abs_omega_diff |-> MaxAbs(Flatten(domega)),
                                  max_abs_Js_diff |-> MaxAbs(dJ),
                                  is_last_step_safe |->
                                      ~rescale /\ revived = {}])]

\* multicomponent_self_consistent_metastep runs steps_inner inner steps and
\* returns to run() after the last one
metastep_inner(f, n) ==
    LET g == kernel_step(f, n) IN
    IF g.run.inner >= g.run.steps_inner THEN [g EXCEPT !.pc = "check"] ELSE g


(***************************************************************************)
(* run, lines 460-478: after a meta-step, count its steps, take its        *)
(* revives off the budget and check convergence.                           *)
(***************************************************************************)
\* a convergence test that is not strict and does not ask for a safe step
Converged_lax(res, tolerance) ==
    /\ FLe(res.max_abs_incomp, tolerance)
    /\ FLe(res.max_abs_omega_diff, tolerance)
    /\ FLe(res.max_abs_Js_diff, tolerance)

Converged(res, tolerance) ==
    /\ res.is_last_step_safe
    /\ FGt(tolerance, res.max_abs_incomp)
    /\ FGt(tolerance, res.max_abs_omega_diff)
    /\ FGt(tolerance, res.max_abs_Js_diff)

\* the revives of a meta-step added to the budget instead of taken off
BudgetAfter_adding(left, revive_count) == left + revive_count
BudgetAfter(left, revive_count) == left - revive_count

\* a check that looks at the criterion before it does the accounts
run_check_criterion_first(f) ==
    LET g == [f EXCEPT
                !.run.steps = f.run.steps + f.run.steps_inner,
                !.revive_count_left =
                    BudgetAfter(f.revive_count_left, f.run.revive_count)]
    IN IF f.convergence_criterion = "standard"
       THEN IF Converged(g.run.residuals[1], g.run.tolerance)
            THEN [g EXCEPT !.pc = "final"]
            ELSE LoopHead([g EXCEPT !.run.outer = g.run.outer + 1])
       ELSE [Raise(f, "run", f.call.arg, "ValueError") EXCEPT
                !.pc = "idle", !.run = NoRun]

run_check(f) ==
    LET g == [f EXCEPT
                !.run.steps = f.run.steps + f.run.steps_inner,
                !.revive_count_left =
                    BudgetAfter(f.revive_count_left, f.run.revive_count)]
    IN IF f.convergence_criterion = "standard"
       THEN IF Converged(g.run.residuals[1], g.run.tolerance)
            THEN [g EXCEPT !.pc = "final"]
            ELSE LoopHead([g EXCEPT !.run.outer = g.run.outer + 1])
       ELSE [Raise(g, "run", g.call.arg, "ValueError") EXCEPT
                !.pc = "idle", !.run = NoRun]

(***************************************************************************)
(* The final copy-revive and the clustering (detail/mcmp_impl.py, not      *)
(* among the source files: modelled from the specification, sections 4.D   *)
(* and 4.G).                                                               *)
(***************************************************************************)
\* a uniformly drawn index in 1..n
UniformIndex(rng, n) == ((rng.seed + rng.pos) % n) + 1

SetToSeq(S) ==
    LET RECURSIVE build(_)
        build(T) == IF T = {} THEN << >>
                    ELSE LET x == CHOOSE y \in T : \A z \in T : y <= z
                         IN <<x>> \o build(T \ {x})
    IN build(S)

\* every compartment with J <= threshold takes J and composition of a
\* surviving compartment drawn at random; with no survivor nothing is copied
revive_compartments_by_copy(Js, phis, threshold, rng) ==
    LET M == Len(Js)
        dead == {m \in 1..M : Dead(Js, threshold, m)}
        alive == SetToSeq((1..M) \ dead)
        src(m) == IF m \in dead /\ alive # << >>
                  THEN alive[UniformIndex(Advance(rng, DeadRank(dead, m)),
                                          Len(alive))]
                  ELSE m
    IN [Js |-> [m \in 1..M |-> Js[src(m)]],
        phis |-> [i \in 1..Len(phis) |-> [m \in 1..M |-> phis[i][src(m)]]],
        rng |-> IF alive = << >> THEN rng ELSE Advance(rng, Cardinality(dead))]

ClusterTolerance == 0

Close(a, b) ==
    \A i \in 1..Len(a) : FLe(FAbs(FSub(a[i], b[i])), ClusterTolerance)

\* the first compartment, in index order, whose composition is close to
\* that of m: the cluster m belongs to
ClusterOf(phis, m) ==
    CHOOSE r \in 1..m :
        /\ r = m \/ Close(Column(phis, r), Column(phis, m))
        /\ \A q \in 1..(r - 1) : ~Close(Column(phis, q), Column(phis, m))

RECURSIVE LexLess(_, _)
LexLess(a, b) ==
    IF a = << >> \/ b = << >> THEN FALSE
    ELSE IF a[1] # b[1] THEN a[1] < b[1]
    ELSE LexLess(Tail(a), Tail(b))

\* volumes left as the sums of the members' J
Normalised_not(volumes) == volumes

\* the volumes of the phases as fractions of their total (section 6: the
\* returned volumes sum to 1); 0 / 0 is nan
Normalised(volumes) ==
    [k \in 1..Len(volumes) |-> FDiv(volumes[k], SumSeq(volumes))]

\* phases in descending order of volume, ties by composition, then by seed
get_clusters(Js, phis) ==
    LET M == Len(Js)
        seeds == {ClusterOf(phis, m) : m \in 1..M}
        members(r) == {m \in 1..M : ClusterOf(phis, m) = r}
        volume(r) == SumSeq([k \in 1..Len(SetToSeq(members(r))) |->
                                Js[SetToSeq(members(r))[k]]])
        best(r) == CHOOSE m \in members(r) :
                      \A q \in members(r) :
                          Js[q] < Js[m] \/ (Js[q] = Js[m] /\ m <= q)
        comp(r) == Column(phis, best(r))
        before(r, q) ==
            \/ volume(r) > volume(q)
            \/ volume(r) = volume(q) /\ LexLess(comp(r), comp(q))
            \/ volume(r) = volume(q) /\ comp(r) = comp(q) /\ r < q
        RECURSIVE order(_)
        order(T) == IF T = {} THEN << >>
                    ELSE LET r == CHOOSE x \in T :
                                     \A y \in T \ {x} : before(x, y)
                         IN <<r>> \o order(T \ {r})
        ranked == order(seeds)
    IN <<Normalised([k \in 1..Len(ranked) |-> volume(ranked[k])]),
         [k \in 1..Len(ranked) |-> comp(ranked[k])]>>

(***************************************************************************)
(* run, lines 480-502: the result.  Reading max_abs_incomp when the loop   *)
(* body never ran raises UnboundLocalError.                                *)
(***************************************************************************)
\* a result computed on the finder's own Js and phis, not on copies
run_finish_in_place(f) ==
    LET final == revive_compartments_by_copy(f.Js, f.phis, f.kill_threshold,
                                             f.rng)
        g == [f EXCEPT !.rng = final.rng, !.pc = "idle", !.run = NoRun,
                       !.Js = final.Js, !.phis = final.phis]
    IN IF f.run.residuals = None
       THEN Raise(g, "run", f.call.arg, "UnboundLocalError")
       ELSE LET res == f.run.residuals[1] IN
            Return([g EXCEPT !.diagnostics = Some(
                       [steps |-> f.run.steps,
                        max_abs_incomp |-> res.max_abs_incomp,
                        max_abs_omega_diff |-> res.max_abs_omega_diff,
                        max_abs_js_diff |-> res.max_abs_Js_diff,
                        revive_count_left |-> f.revive_count_left,
                        phis |-> final.phis,
                        Js |-> final.Js])],
                   "run", f.call.arg,
                   Some(get_clusters(final.Js, final.phis)))

run_finish(f) ==
    LET final == revive_compartments_by_copy(f.Js, f.phis, f.kill_threshold,
                                             f.rng)
        g == [f EXCEPT !.rng = final.rng, !.pc = "idle", !.run = NoRun]
    IN IF f.run.residuals = None
       THEN Raise(g, "run", f.call.arg, "UnboundLocalError")
       ELSE LET res == f.run.residuals[1] IN
            Return([g EXCEPT !.diagnostics = Some(
                       [steps |-> f.run.steps,
                        max_abs_incomp |-> res.max_abs_incomp,
                        max_abs_omega_diff |-> res.max_abs_omega_diff,
                        max_abs_js_diff |-> res.max_abs_Js_diff,
                        revive_count_left |-> f.revive_count_left,
                        phis |-> final.phis,
                        Js |-> final.Js])],
                   "run", f.call.arg,
                   Some(get_clusters(final.Js, final.phis)))

(***************************************************************************)
(* The state: one finder and the calls its caller makes.                   *)
(***************************************************************************)
VARIABLES finder, twin

vars == <<finder, twin>>

\* the arguments a caller passes to the constructor: every combination of
\* the number of compartments, the criterion and the revive budget, and
\* beside these each of chis, phi_means, sizes and rng varied on its own
BaseArgs ==
    [chis |-> <<<<0, 3 * One>>, <<3 * One, 0>>>>, phi_means |-> <<2, 2>>,
     num_compartments |-> MaxCompartments, sizes |-> None,
     rng |-> Some(default_rng(0)),
     max_steps |-> MaxSteps, convergence_criterion |-> "standard",
     tolerance |-> 2, interval |-> MaxInterval,
     Js_step_upper_bound |-> One, kill_threshold |-> 0,
     max_revive_per_compartment |-> 1]

InitArgs ==
    {[BaseArgs EXCEPT !.num_compartments = m, !.convergence_criterion = c,
                      !.max_revive_per_compartment = r] :
        m \in 1..MaxCompartments, c \in Criteria, r \in MaxReviveChoices}
    \cup {[BaseArgs EXCEPT !.chis = x] : x \in ChisInputs}
    \cup {[BaseArgs EXCEPT !.phi_means = x] : x \in PhiMeansInputs}
    \cup {[BaseArgs EXCEPT !.sizes = x] : x \in Optional(SizesInputs)}
    \cup {[BaseArgs EXCEPT !.rng = x] :
            x \in Optional({default_rng(k) : k \in Seeds})}
    \cup {[BaseArgs EXCEPT !.kill_threshold = t,
                           !.max_revive_per_compartment = r] :
            t \in KillThresholds, r \in MaxReviveChoices}

Init == finder = NoFinder /\ twin = NoFinder

\* the caller is between two calls and may make another
CanCall(f) == f.pc = "idle" /\ f.calls < MaxCalls
Called(f) == [f EXCEPT !.calls = f.calls + 1]

Construct ==
    /\ finder.pc = "init"
    /\ \E a \in InitArgs, clock \in Seeds :
          finder' = init(finder, a, clock) /\ UNCHANGED twin

ReinitializeRandom ==
    /\ CanCall(finder)
    /\ finder' = reinitialize_random(Called(finder)) /\ UNCHANGED twin

ReinitializeFromOmegas ==
    /\ CanCall(finder)
    /\ \E x \in OmegasInputs(finder.num_components, finder.num_compartments) :
          /\ finder' = reinitialize_from_omegas(Called(finder), x)
          /\ UNCHANGED twin

ReinitializeFromPhis ==
    /\ CanCall(finder)
    /\ \E x \in PhisInputs(finder.num_components, finder.num_compartments) :
          /\ finder' = reinitialize_from_phis(Called(finder), x)
          /\ UNCHANGED twin

SetChis ==
    /\ CanCall(finder)
    /\ \E x \in ChisInputs :
          /\ finder' = chis_setter(Called(finder), x)
          /\ UNCHANGED twin

SetPhiMeans ==
    /\ CanCall(finder)
    /\ \E x \in PhiMeansInputs :
          /\ finder' = phi_means_setter(Called(finder), x)
          /\ UNCHANGED twin

SetSizes ==
    /\ CanCall(finder)
    /\ \E x \in SizesInputs :
          /\ finder' = sizes_setter(Called(finder), x)
          /\ UNCHANGED twin

RunBegin ==
    /\ CanCall(finder)
    /\ \E o \in RunOverrides :
          /\ finder' = run_begin(Called(finder), o[1], None, o[2])
          /\ UNCHANGED twin

MetastepInner ==
    /\ finder.pc = "metastep"
    /\ \E n \in Numerics(finder) :
          /\ finder' = metastep_inner(finder, n)
          /\ UNCHANGED twin

RunCheck ==
    /\ finder.pc = "check"
    /\ finder' = run_check(finder) /\ UNCHANGED twin

RunFinish ==
    /\ finder.pc = "final"
    /\ finder' = run_finish(finder) /\ UNCHANGED twin

Next ==
    \/ Construct
    \/ ReinitializeRandom
    \/ ReinitializeFromOmegas
    \/ ReinitializeFromPhis
    \/ SetChis
    \/ SetPhiMeans
    \/ SetSizes
    \/ RunBegin
    \/ MetastepInner
    \/ RunCheck
    \/ RunFinish

Spec == Init /\ [][Next]_vars

(***************************************************************************)
(* Two finders side by side: built with the same arguments, among them     *)
(* generators of their own with the same seed, each at a time of its own   *)
(* (two readings of the clock), and then given the same calls.  The        *)
(* arithmetic of an inner step is a function of what the kernel is handed: *)
(* where the two finders hand it the same, it yields the same.             *)
(***************************************************************************)
PairInitArgs == {a \in InitArgs : a.rng # None}

KernelInputs(f) ==
    <<f.phi_means, f.run.chis_shifted, f.sizes, f.omegas, f.Js, f.phis,
      f.Js_step_upper_bound, f.kill_threshold, f.run.revive_tries,
      f.run.revive_count, f.rng>>

BothCanCall == CanCall(finder) /\ CanCall(twin)

PairConstruct ==
    /\ finder.pc = "init" /\ twin.pc = "init"
    /\ \E a \in PairInitArgs, clock1 \in Seeds, clock2 \in Seeds :
          /\ finder' = init(finder, a, clock1)
          /\ twin' = init(twin, a, clock2)

PairReinitializeRandom ==
    /\ BothCanCall
    /\ finder' = reinitialize_random(Called(finder))
    /\ twin' = reinitialize_random(Called(twin))

PairReinitializeFromOmegas ==
    /\ BothCanCall
    /\ \E x \in OmegasInputs(finder.num_components, finder.num_compartments) :
          /\ finder' = reinitialize_from_omegas(Called(finder), x)
          /\ twin' = reinitialize_from_omegas(Called(twin), x)

PairReinitializeFromPhis ==
    /\ BothCanCall
    /\ \E x \in PhisInputs(finder.num_components, finder.num_compartments) :
          /\ finder' = reinitialize_from_phis(Called(finder), x)
          /\ twin' = reinitialize_from_phis(Called(twin), x)

PairSetChis ==
    /\ BothCanCall
    /\ \E x \in ChisInputs :
          /\ finder' = chis_setter(Called(finder), x)
          /\ twin' = chis_setter(Called(twin), x)

PairSetPhiMeans ==
    /\ BothCanCall
    /\ \E x \in PhiMeansInputs :
          /\ finder' = phi_means_setter(Called(finder), x)
          /\ twin' = phi_means_setter(Called(twin), x)

PairSetSizes ==
    /\ BothCanCall
    /\ \E x \in SizesInputs :
          /\ finder' = sizes_setter(Called(finder), x)
          /\ twin' = sizes_setter(Called(twin), x)

PairRunBegin ==
    /\ BothCanCall
    /\ \E o \in RunOverrides :
          /\ finder' = run_begin(Called(finder), o[1], None, o[2])
          /\ twin' = run_begin(Called(twin), o[1], None, o[2])

PairMetastepInner ==
    /\ finder.pc = "metastep" /\ twin.pc = "metastep"
    /\ \E n1 \in Numerics(finder), n2 \in Numerics(twin) :
          /\ KernelInputs(finder) = KernelInputs(twin) => n1 = n2
          /\ finder' = metastep_inner(finder, n1)
          /\ twin' = metastep_inner(twin, n2)

PairRunCheck ==
    /\ finder.pc = "check" /\ twin.pc = "check"
    /\ finder' = run_check(finder) /\ twin' = run_check(twin)

PairRunFinish ==
    /\ finder.pc = "final" /\ twin.pc = "final"
    /\ finder' = run_finish(finder) /\ twin' = run_finish(twin)

PairNext ==
    \/ PairConstruct
    \/ PairReinitializeRandom
    \/ PairReinitializeFromOmegas
    \/ PairReinitializeFromPhis
    \/ PairSetChis
    \/ PairSetPhiMeans
    \/ PairSetSizes
    \/ PairRunBegin
    \/ PairMetastepInner
    \/ PairRunCheck
    \/ PairRunFinish

SpecPair == Init /\ [][PairNext]_vars


(***************************************************************************)
(* Vocabulary of the properties.                                           *)
(***************************************************************************)
InRun(f) == f.pc \in {"metastep", "check", "final"}
\* this step is a call of op that began and ended in it
CallOf(f, g, ops) ==
    f.pc = "idle" /\ g.pc = "idle" /\ g.calls = f.calls + 1 /\ g.call.op \in ops
Ones(n) == [k \in 1..n |-> One]
\* the max_steps and interval a call of run() works with
MaxStepsOf(f) == IF f.call.arg[1] = None THEN f.max_steps ELSE f.call.arg[1][1]
IntervalOf(f) == IF f.call.arg[3] = None THEN f.interval ELSE f.call.arg[3][1]
HasNegative(a) == \E k \in 1..Len(a) : a[k] < 0
HasNonPositive2(a) == \E i \in 1..Len(a) : \E k \in 1..Len(a[i]) : a[i][k] <= 0
Min(a, b) == IF a <= b THEN a ELSE b

(***************************************************************************)
(* C1. Setter isolation: a setter (chis, phi_means, sizes) given a value   *)
(* of the right shape leaves omegas, Js and phis as they were and sets the *)
(* revive budget to max_revive_per_compartment * num_compartments.         *)
(***************************************************************************)
C1_SetterIsolation ==
    [][CallOf(finder, finder', {"chis", "phi_means", "sizes"})
         /\ finder'.call.status = "ok"
       => /\ finder'.omegas = finder.omegas
          /\ finder'.Js = finder.Js
          /\ finder'.phis = finder.phis
          /\ finder'.revive_count_left =
                finder.max_revive_per_compartment * finder.num_compartments]_vars

\* a setter has reset the budget of a finder whose last run used budget up
\* and left a compartment dead
C1_Witness ==
    /\ finder.call.op \in {"chis", "phi_means", "sizes"}
    /\ finder.call.status = "ok"
    /\ finder.diagnostics # None
    /\ finder.diagnostics[1].revive_count_left < finder.revive_count_left
    /\ \E m \in 1..Len(finder.Js) : finder.Js[m] = 0

(***************************************************************************)
(* C2. Budget monotonicity.  As claimed: for every configuration the       *)
(* constructor accepts, revive_count_left never increases from one step of *)
(* a run to the next and is never below 0 during the run nor in the        *)
(* diagnostics.                                                            *)
(***************************************************************************)
C2_Original ==
    [][/\ InRun(finder) /\ InRun(finder')
            => finder'.revive_count_left <= finder.revive_count_left
       /\ InRun(finder') => finder'.revive_count_left >= 0
       /\ finder'.diagnostics # None
            => finder'.diagnostics[1].revive_count_left >= 0]_vars

(***************************************************************************)
(* C2, amended.  revive_count_left never increases from one step of a run  *)
(* to the next, and during the run and in the diagnostics it is never      *)
(* below the smaller of 0 and max_revive_per_compartment *                 *)
(* num_compartments: never below 0 unless max_revive_per_compartment is    *)
(* negative.                                                               *)
(***************************************************************************)
C2_BudgetMonotone ==
    [][/\ InRun(finder) /\ InRun(finder')
            => finder'.revive_count_left <= finder.revive_count_left
       /\ InRun(finder')
            => finder'.revive_count_left >= Min(0, FullBudget(finder'))
       /\ finder'.diagnostics # None
            => finder'.diagnostics[1].revive_count_left
                   >= Min(0, FullBudget(finder'))]_vars

\* a run has used the whole budget up
C2_Witness ==
    /\ finder.pc = "final"
    /\ FullBudget(finder) > 0
    /\ finder.revive_count_left = 0

(***************************************************************************)
(* C3. Volume-fraction validation, as claimed: a constructor call with a   *)
(* negative entry in phi_means, and a reinitialize_from_phis call with a   *)
(* rightly shaped phis holding a non-positive entry, end in an error.      *)
(***************************************************************************)
C3_VolumeFractionsValidated ==
    /\ finder.call.op = "__init__" /\ HasNegative(finder.call.arg[1].phi_means)
          => finder.call.status # "ok"
    /\ (/\ finder.call.op = "reinitialize_from_phis"
        /\ Shape2(finder.call.arg[1]) = Shape2(finder.omegas)
        /\ HasNonPositive2(finder.call.arg[1]))
          => finder.call.status # "ok"

(***************************************************************************)
(* C4. As claimed: reinitialize_from_omegas given an array of shape        *)
(* (num_components, num_compartments) succeeds, and then omegas is that    *)
(* array, every J is 1 and the budget is full.                             *)
(***************************************************************************)
C4_ReinitializeFromOmegasAssigns ==
    (/\ finder.call.op = "reinitialize_from_omegas"
     /\ Shape2(finder.call.arg[1])
            = <<finder.num_components, finder.num_compartments>>)
    => /\ finder.call.status = "ok"
       /\ finder.omegas = finder.call.arg[1]
       /\ finder.Js = Ones(finder.num_compartments)
       /\ finder.revive_count_left = FullBudget(finder)

(***************************************************************************)
(* C5. reinitialize_random, and reinitialize_from_phis given a rightly     *)
(* shaped, strictly positive phis, set every J to 1 and the budget to      *)
(* max_revive_per_compartment * num_compartments; reinitialize_from_phis   *)
(* also sets omegas[i,m] = -log(phis[i,m]) / sizes[i].                     *)
(***************************************************************************)
C5_Reseed ==
    /\ finder.call.op = "reinitialize_random"
          => /\ finder.call.status = "ok"
             /\ finder.Js = Ones(finder.num_compartments)
             /\ finder.revive_count_left =
                   finder.max_revive_per_compartment * finder.num_compartments
    /\ (/\ finder.call.op = "reinitialize_from_phis"
        /\ Shape2(finder.call.arg[1])
              = <<finder.num_components, finder.num_compartments>>
        /\ ~HasNonPositive2(finder.call.arg[1]))
          => /\ finder.call.status = "ok"
             /\ finder.Js = Ones(finder.num_compartments)
             /\ finder.revive_count_left =
                   finder.max_revive_per_compartment * finder.num_compartments
             /\ \A i \in 1..finder.num_components :
                  \A m \in 1..finder.num_compartments :
                     finder.omegas[i][m] =
                        FDiv(FNeg(Log(finder.call.arg[1][i][m])),
                             finder.sizes[i])

\* reinitialize_from_phis on a finder whose last run ended with the budget
\* used up and every compartment dead
C5_Witness ==
    /\ finder.call.op = "reinitialize_from_phis"
    /\ finder.call.status = "ok"
    /\ ~HasNonPositive2(finder.call.arg[1])
    /\ finder.diagnostics # None
    /\ finder.diagnostics[1].revive_count_left = 0
    /\ \E m \in 1..Len(finder.Js) : finder.diagnostics[1].Js[m] = 0
    /\ finder.revive_count_left > 0
    /\ \E m \in 1..finder.num_compartments : finder.omegas[1][m] # 0

(***************************************************************************)
(* C6. As claimed: a run of a finder whose convergence_criterion is not    *)
(* "standard" fails with the configuration error (the ValueError of line   *)
(* 476), whatever max_steps and interval are.                              *)
(***************************************************************************)
C6_UnknownCriterionFails ==
    (/\ finder.pc = "idle"
     /\ finder.call.op = "run"
     /\ finder.convergence_criterion # "standard")
    => finder.call.status = "ValueError"

(***************************************************************************)
(* C7. As claimed: with the criterion "standard", for every max_steps >= 0 *)
(* and interval >= 1, a run returns normally, with a clustering, and sets  *)
(* the diagnostics.                                                        *)
(***************************************************************************)
C7_NonConvergenceReturns ==
    (/\ finder.pc = "idle"
     /\ finder.call.op = "run"
     /\ finder.convergence_criterion = "standard")
    => /\ finder.call.status = "ok"
       /\ finder.call.value # None
       /\ finder.diagnostics # None

(***************************************************************************)
(* C8. max_steps bounds the work of a run: for positive max_steps and      *)
(* interval the inner iterations of a run (the batches counted in steps,   *)
(* the steps of the batch under way, and the 'steps' diagnostic) never     *)
(* exceed max_steps, and no batch has more than interval inner steps.      *)
(***************************************************************************)
C8_MaxStepsBoundsWork ==
    /\ InRun(finder)
          => /\ finder.run.steps_inner <= IntervalOf(finder)
             /\ finder.run.inner <= finder.run.steps_inner
             /\ finder.run.steps <= MaxStepsOf(finder)
             /\ finder.pc = "metastep"
                   => finder.run.steps + finder.run.steps_inner
                          <= MaxStepsOf(finder)
             /\ finder.run.steps =
                   finder.run.steps_inner
                     * (finder.run.outer
                          + IF finder.pc = "final"
                                  /\ finder.run.outer < finder.run.steps_tracker
                            THEN 1 ELSE 0)
    /\ (finder.pc = "idle" /\ finder.call.op = "run"
          /\ finder.call.status = "ok")
          => finder.diagnostics[1].steps <= MaxStepsOf(finder)

\* a run that did all of its max_steps = 2 inner steps, in two batches
C8_Witness ==
    /\ finder.pc = "idle"
    /\ finder.call.op = "run"
    /\ finder.call.status = "ok"
    /\ finder.call.arg = <<Some(2), None, Some(1)>>
    /\ finder.diagnostics[1].steps = 2

(***************************************************************************)
(* C9. Convergence stopping rule (criterion "standard"): the outer         *)
(* iteration whose values are safe and have all three residuals strictly   *)
(* below the tolerance is the last one of the run, and a run leaves the    *)
(* loop before its steps_tracker-th outer iteration only on such values,   *)
(* so never after an unsafe last step.                                     *)
(***************************************************************************)
C9_Met(f) ==
    LET res == f.run.residuals[1] IN
    /\ res.is_last_step_safe
    /\ FLt(res.max_abs_incomp, f.run.tolerance)
    /\ FLt(res.max_abs_omega_diff, f.run.tolerance)
    /\ FLt(res.max_abs_Js_diff, f.run.tolerance)

C9_StoppingRule ==
    [][(finder.pc = "check" /\ finder.convergence_criterion = "standard")
       => /\ C9_Met(finder) => finder'.pc = "final"
          /\ (finder'.pc = "final"
                /\ finder.run.outer + 1 < finder.run.steps_tracker)
                => C9_Met(finder)
          /\ (~finder.run.residuals[1].is_last_step_safe
                /\ finder.run.outer + 1 < finder.run.steps_tracker)
                => finder'.pc = "metastep"]_vars

\* a run that stopped after the first of its two outer iterations
C9_Witness ==
    /\ finder.pc = "final"
    /\ finder.run.outer = 0
    /\ finder.run.steps_tracker = 2
    /\ finder.run.residuals[1].is_last_step_safe


(***************************************************************************)
(* C10. Determinism: two finders built with identical arguments and        *)
(* identically seeded generators, and given the same calls, have the same  *)
(* omegas, Js, phis and revive budget after every step, and their calls    *)
(* end the same way, with the same results and the same diagnostics.       *)
(***************************************************************************)
Observed(f) ==
    <<f.omegas, f.Js, f.phis, f.revive_count_left, f.diagnostics,
      f.call.op, f.call.status, f.call.value>>

BudgetInBatch(f) == f.revive_count_left - f.run.revive_count

C11_ReviveExhaustion ==
    [][/\ (finder'.pc # "init" /\ finder'.max_revive_per_compartment = 0)
            => /\ finder'.revive_count_left = 0
               /\ finder'.run.revive_count = 0
               /\ finder'.diagnostics # None
                     => finder'.diagnostics[1].revive_count_left = 0
       /\ (finder.pc = "metastep" /\ InRun(finder')
             /\ BudgetInBatch(finder) <= 0)
            => /\ finder'.run.revive_count = finder.run.revive_count
               /\ \A m \in 1..finder.num_compartments :
                     (Dead(finder.Js, finder.kill_threshold, m)
                        \/ finder.Js[m] = 0)
                     => finder'.Js[m] = 0
       /\ (InRun(finder) /\ finder.pc # "metastep" /\ InRun(finder'))
            => finder'.Js = finder.Js]_vars

\* the second batch of a run is done; the first used the whole budget up,
\* and of the compartments one is dead and one is live
C11_Witness ==
    /\ finder.pc = "check"
    /\ finder.run.steps >= 1
    /\ FullBudget(finder) > 0
    /\ finder.run.revive_tries = 0
    /\ \E m \in 1..finder.num_compartments : finder.Js[m] = 0
    /\ \E m \in 1..finder.num_compartments : finder.Js[m] > 0

(***************************************************************************)
(* C12. Volume normalization, as claimed: the volumes every returning run  *)
(* returns sum to 1, and there are at most num_compartments of them.       *)
(***************************************************************************)
Returned(f) == f.pc = "idle" /\ f.call.op = "run" /\ f.call.status = "ok"
phases_volumes(f) == f.call.value[1][1]

FinalJsSound(f) ==
    LET Js == f.diagnostics[1].Js IN
    /\ \A m \in 1..Len(Js) : ~IsNaN(Js[m])
    /\ \E m \in 1..Len(Js) : Js[m] # 0

C13_ShapesValidated ==
    finder.call.op = "__init__"
    => LET a == finder.call.arg[1]
           rows == Len(a.chis)
           bad == \/ \E i \in 1..rows : Len(a.chis[i]) # rows
                  \/ Len(a.phi_means) # rows
                  \/ a.sizes # None /\ Len(a.sizes[1]) # rows
       IN /\ bad => /\ finder.call.status = "ValueError"
                    /\ finder.pc = "init"
                    /\ finder.chis = << >> /\ finder.omegas = << >>
          /\ (~bad /\ finder.call.status = "ok")
                => /\ finder.num_components = rows
                   /\ Len(finder.sizes) = rows
                   /\ a.sizes = None => finder.sizes = Ones(rows)

\* the constructor has refused a sizes that is one entry too long
C13_Witness ==
    /\ finder.call.op = "__init__"
    /\ finder.call.status = "ValueError"
    /\ finder.call.arg[1].sizes # None
    /\ Len(finder.call.arg[1].sizes[1]) = Len(finder.call.arg[1].chis) + 1
    /\ finder.pc = "init"

(***************************************************************************)
(* C14. Non-negativity of volumes, as claimed: with kill_threshold >= 0,   *)
(* after every inner step every J is 0 or above kill_threshold, and no J   *)
(* is negative in any state, in the 'Js' diagnostic or among the returned  *)
(* phase volumes.                                                          *)
(***************************************************************************)
NoneNegative(s) == \A k \in 1..Len(s) : ~FLt(s[k], 0)

NothingNegative(f) ==
    /\ NoneNegative(f.Js)
    /\ f.diagnostics # None => NoneNegative(f.diagnostics[1].Js)
    /\ Returned(f) => NoneNegative(phases_volumes(f))

RevivePass(f, g, floor) ==
    LET revived == g.run.revived
        left == g.run.killed \ revived
    IN /\ revived \subseteq g.run.killed
       /\ \A m \in revived : g.Js[m] = One
       /\ \A m \in left : g.Js[m] = 0
       /\ g.run.revive_count = f.run.revive_count + Cardinality(revived)
       /\ g.run.revive_count <= floor
       \* dead compartments are left only when the budget is used up
       /\ left # {} => g.run.revive_count >= g.run.revive_tries
       \* and they come after every revived one
       /\ \A m \in revived : \A j \in left : m < j

C15_Original ==
    [][(finder.pc = "metastep" /\ InRun(finder'))
       => RevivePass(finder, finder', finder.run.revive_tries)]_vars

(***************************************************************************)
(* C15, amended.  As claimed, but the revive count of a batch never        *)
(* exceeds the larger of 0 and the revive_tries passed in: revive_tries is *)
(* negative when max_revive_per_compartment is, and then nothing is        *)
(* revived and the count is 0.                                             *)
(***************************************************************************)
C15_RevivePass ==
    [][(finder.pc = "metastep" /\ InRun(finder'))
       => RevivePass(finder, finder', Max(0, finder.run.revive_tries))]_vars

\* an inner step killed both compartments with one unit of budget left, and
\* revived the first
C15_Witness ==
    /\ InRun(finder)
    /\ finder.run.killed = {1, 2}
    /\ finder.run.revived = {1}
    /\ finder.run.revive_count = finder.run.revive_tries

(***************************************************************************)
(* C16. State unchanged on a rejected shape: a setter (chis, phi_means,    *)
(* sizes) or reinitialize_from_phis given a value of the wrong shape       *)
(* raises, and chis, phi_means, sizes, omegas, Js, phis and the revive     *)
(* budget are as before the call.                                          *)
(***************************************************************************)
Fields(f) ==
    <<f.chis, f.phi_means, f.sizes, f.omegas, f.Js, f.phis,
      f.revive_count_left>>

WrongShape(f, op, x) ==
    \/ op = "chis" /\ Shape2(x) # Shape2(f.chis)
    \/ op = "phi_means" /\ Len(x) # f.num_components
    \/ op = "sizes" /\ Len(x) # f.num_components
    \/ op = "reinitialize_from_phis"
          /\ Shape2(x) # <<f.num_components, f.num_compartments>>

C16_RejectedShapeKeepsState ==
    [][(/\ CallOf(finder, finder',
                  {"chis", "phi_means", "sizes", "reinitialize_from_phis"})
        /\ WrongShape(finder, finder'.call.op, finder'.call.arg[1]))
       => /\ finder'.call.status = "ValueError"
          /\ Fields(finder') = Fields(finder)]_vars

\* a call was rejected for its shape by a finder whose last run had used
\* budget up and left a compartment dead: the budget is still short and the
\* J still 0
C16_Witness ==
    /\ finder.call.op \in {"chis", "phi_means", "sizes",
                           "reinitialize_from_phis"}
    /\ finder.call.status = "ValueError"
    /\ finder.revive_count_left < FullBudget(finder)
    /\ \E m \in 1..finder.num_compartments : finder.Js[m] = 0

(***************************************************************************)
(* C17. A run with an unknown convergence_criterion has side effects: it   *)
(* raises its ValueError at the first convergence check, after one whole   *)
(* batch of steps_inner inner steps and never a second; omegas, Js and     *)
(* phis are then those the batch left, the budget is less by the batch's   *)
(* revive count, and the diagnostics are untouched.                        *)
(***************************************************************************)
C17_UnknownCriterionSideEffects ==
    [][/\ (InRun(finder') /\ finder'.convergence_criterion # "standard")
            => finder'.run.outer = 0 /\ finder'.pc # "final"
       /\ (finder.pc = "check" /\ finder.convergence_criterion # "standard")
            => /\ finder.run.inner = finder.run.steps_inner
               /\ finder.run.steps_inner >= 1
               /\ finder'.pc = "idle"
               /\ finder'.call.op = "run"
               /\ finder'.call.status = "ValueError"
               /\ finder'.call.value = None
               /\ finder'.omegas = finder.omegas
               /\ finder'.Js = finder.Js
               /\ finder'.phis = finder.phis
               /\ finder'.revive_count_left =
                     finder.revive_count_left - finder.run.revive_count
               /\ finder'.diagnostics = finder.diagnostics
       /\ (finder'.call.op = "run" /\ finder'.call.status = "ValueError")
            => finder.pc = "check" \/ finder'.call = finder.call]_vars

\* the run has failed; its batch killed a compartment and revived another
C17_Witness ==
    /\ finder.pc = "idle"
    /\ finder.call.op = "run"
    /\ finder.call.status = "ValueError"
    /\ finder.revive_count_left < FullBudget(finder)
    /\ \E m \in 1..finder.num_compartments : finder.Js[m] = 0
    /\ finder.phis # Full2(finder.num_components, finder.num_compartments, 0)

(***************************************************************************)
(* C18. The final copy-revive and the clustering act on copies: the step   *)
(* that ends a run leaves the finder's omegas, Js and phis as the last     *)
(* inner step left them (a dead compartment keeps J = 0), no step of a run *)
(* changes chis, and the 'Js' and 'phis' diagnostics hold the copy-revived *)
(* values: those of the finder for a live compartment, those of a          *)
(* surviving compartment for a dead one.                                   *)
(***************************************************************************)
C18_FinalActsOnCopies ==
    [][/\ (InRun(finder) \/ InRun(finder')) => finder'.chis = finder.chis
       /\ (finder.pc = "final" /\ finder'.call.status = "ok")
            => LET d == finder'.diagnostics[1]
                   M == finder.num_compartments
                   live == {m \in 1..M :
                              ~FLe(finder.Js[m], finder.kill_threshold)}
               IN /\ finder'.omegas = finder.omegas
                  /\ finder'.Js = finder.Js
                  /\ finder'.phis = finder.phis
                  /\ \A m \in live :
                        /\ d.Js[m] = finder.Js[m]
                        /\ Column(d.phis, m) = Column(finder.phis, m)
                  /\ \A m \in (1..M) \ live :
                        live # {}
                        => \E q \in live :
                              /\ d.Js[m] = finder.Js[q]
                              /\ Column(d.phis, m) = Column(finder.phis, q)]_vars

\* a run has returned and left a dead compartment with J = 0 in the finder,
\* while the 'Js' diagnostic has a survivor's J in its place
C18_Witness ==
    /\ Returned(finder)
    /\ finder.chis = BaseArgs.chis
    /\ \E m \in 1..finder.num_compartments :
          /\ finder.Js[m] = 0
          /\ finder.diagnostics[1].Js[m] = One
          /\ Column(finder.diagnostics[1].phis, m) # Column(finder.phis, m)

(***************************************************************************)
(* C19. Budget and fields carry over between runs.  The revive budget is   *)
(* max_revive_per_compartment * num_compartments after a construction, a   *)
(* setter or a re-seed that returned, and from then on it changes only by  *)
(* a run subtracting the revive count of each batch of inner steps, which  *)
(* is the number of revives of that batch; a call that raises before any   *)
(* step of a run leaves it alone.  Beginning a run changes none of omegas, *)
(* Js, phis and the budget, and the first batch is handed the budget the   *)
(* finder then has.                                                        *)
(***************************************************************************)
C19_CarryOver ==
    [][/\ (finder.pc = "idle" /\ finder'.call.op = "run")
            => /\ Fields(finder') = Fields(finder)
               /\ finder'.pc = "metastep"
                    => /\ finder'.run.revive_tries = finder.revive_count_left
                       /\ finder'.run.revive_count = 0
       /\ finder.pc = "metastep"
            => /\ finder'.revive_count_left = finder.revive_count_left
               /\ finder'.run.revive_count
                    = finder.run.revive_count
                        + Cardinality(finder'.run.revived)
       /\ finder.pc = "check"
            => /\ finder'.revive_count_left
                    = finder.revive_count_left - finder.run.revive_count
               /\ finder'.omegas = finder.omegas
               /\ finder'.Js = finder.Js
               /\ finder'.phis = finder.phis
               /\ finder'.pc = "metastep"
                    => /\ finder'.run.revive_tries = finder'.revive_count_left
                       /\ finder'.run.revive_count = 0
       /\ finder.pc = "final" => Fields(finder') = Fields(finder)
       /\ (finder.pc \in {"init", "idle"} /\ finder'.call.op # "run")
            => IF finder'.call.status = "ok"
               THEN finder'.revive_count_left = FullBudget(finder')
               ELSE finder'.revive_count_left = finder.revive_count_left]_vars

\* a second run, begun right after a first one that revived and left a
\* dead compartment, has been handed what the first one left
C19_Witness ==
    /\ finder.pc = "metastep"
    /\ finder.run.steps = 0 /\ finder.run.inner = 0
    /\ finder.calls = 2 /\ finder.diagnostics # None
    /\ finder.run.revive_tries = finder.diagnostics[1].revive_count_left
    /\ finder.run.revive_tries < FullBudget(finder)
    /\ \E m \in 1..finder.num_compartments : finder.Js[m] = 0

=============================================================================
